---- MODULE Spec2Model ----
(***************************************************************************)
(* Model of the DecisionToolBox "blackBox" optimiser:                      *)
(*   - calEnvImpact                      (EnvImpact.cpp)                   *)
(*   - findOptEnvSchedule / findOptCostSchedule (FindOptSchedule.cpp)      *)
(*   - mergeFourSched                    (FindOptSchedule.cpp)             *)
(*                                                                         *)
(* Floats are modelled as integers counted in hundredths (the improvement  *)
(* coefficients 0.15 / 0.10 / 0.05 become 15 / 10 / 5); +infinity is the   *)
(* absorbing value Inf.  An int that the code never initialised holds the  *)
(* marker Undef; what a read of it yields is chosen nondeterministically.  *)
(***************************************************************************)
EXTENDS Integers, Sequences, FiniteSets, TLC

\* numeric_limits<float>::infinity()
Inf == 1000000
\* content of an int the code declared but has not written yet
Undef == -7
\* last year index of M[101][9]
Horizon == 100
\* last rating index of M[101][9]
MaxRating == 8
\* ratingsDecay[10][10]: highest condition rating
TopRating == 9
\* scale of the fixed-point representation of a float
Scale == 100

Add(a, b) == IF a = Inf \/ b = Inf THEN Inf ELSE a + b

RECURSIVE Pow(_, _)
Pow(b, e) == IF e = 0 \/ b = 1 THEN 1 ELSE b * Pow(b, e - 1)

(***************************************************************************)
(* calEnvImpact                                                            *)
(***************************************************************************)
categoryOne    == {1, 7, 15, 16}
categoryTwo    == {2}
\* set<int> three(categoryThree, categoryThree+14): the first 14 of 15 items
categoryThreeList == <<3, 22, 23, 24, 25, 26, 27, 28, 29, 30, 31, 32, 33, 34, 45>>
categoryThree  == {categoryThreeList[n] : n \in 1..14}
categoryFour   == {4, 10}
categoryFive   == {5}
categorySix    == {6, 37, 38, 39, 40}
categorySeven  == {8, 9, 41, 42, 43, 44, 46, 47, 48, 49, 50}
categoryEight  == {11, 51}
categoryNine   == {12, 13, 14}
categoryTen    == {17, 18, 19, 20, 21, 35, 36}
categoryEleven == {0}

\* for (i...) if (impMat[i].condition == rating) impCoeff = impMat[i].coef;
\* the last matching row wins; without a match impCoeff stays uninitialised
\* and a use of it yields the garbage value gc
RECURSIVE ImpCoeffFrom(_, _, _, _)
ImpCoeffFrom(impMat, rating, n, cur) ==
    IF n > Len(impMat) THEN cur
    ELSE ImpCoeffFrom(impMat, rating, n + 1,
                      IF impMat[n].condition = rating THEN impMat[n].coef ELSE cur)

ImpCoeff(impMat, rating, gc) == ImpCoeffFrom(impMat, rating, 1, gc)

\* a row matched by its repairID alone
MatchesID(row, repairID, rating) == row.repairID = repairID
\* repairs[j].repairID == repairID && (rating <= repairs[j].UB && rating >= repairs[j].LB)
Matches(row, repairID, rating) ==
    row.repairID = repairID /\ rating <= row.UB /\ rating >= row.LB

\* index of the first catalog row with this repairID whose [LB, UB] holds
\* rating, 0 if there is none
RECURSIVE FirstRow(_, _, _, _)
FirstRow(repairs, repairID, rating, n) ==
    IF n > Len(repairs) THEN 0
    ELSE IF Matches(repairs[n], repairID, rating)
         THEN n
         ELSE FirstRow(repairs, repairID, rating, n + 1)

\* the value (in hundredths) calEnvImpact returns; gc is what an
\* uninitialised impCoeff reads as
calEnvImpact(bridge, year, repairID, rating, repairs, impMat, gc) ==
    LET deckLength == bridge.bridgeLength
        deckWidth  == bridge.bridgeWidth
        AADT       == bridge.bridgeAADT
        growth     == Pow(1 + bridge.trafficGrowthRate, year)
        impCoeff   == ImpCoeff(impMat, rating, gc)
        n          == FirstRow(repairs, repairID, rating, 1)
        meanRepair == repairs[n].repairMean
        meanTraffic == repairs[n].trafficMean
        days       == repairs[n].duration
    IN  IF repairID \in categoryOne THEN
            IF n = 0 THEN 0
            ELSE meanRepair * deckLength * deckWidth * impCoeff
                 + Scale * meanTraffic * AADT * days * growth
        ELSE IF repairID \in categoryTwo THEN
            IF n = 0 THEN 0
            ELSE meanRepair * 10 * deckWidth * impCoeff
                 + Scale * meanTraffic * AADT * days * growth
        ELSE IF repairID \in categoryThree THEN
            IF n = 0 THEN 0
            ELSE Scale * meanRepair * deckWidth * meanTraffic * AADT * days * growth
        ELSE IF repairID \in categoryFour THEN
            IF n = 0 THEN 0 ELSE meanRepair * deckLength * 2 * impCoeff
        ELSE IF repairID \in categoryFive THEN
            IF n = 0 THEN 0 ELSE Scale * meanRepair * deckLength * deckWidth
        ELSE IF repairID \in categorySix THEN
            IF n = 0 THEN 0 ELSE meanRepair * deckLength * deckWidth * impCoeff
        ELSE IF repairID \in categorySeven THEN 0
        ELSE IF repairID \in categoryEight THEN
            IF n = 0 THEN 0 ELSE Scale * meanRepair
        ELSE IF repairID \in categoryNine THEN
            IF n = 0 THEN 0
            ELSE meanRepair * deckLength * 2 * impCoeff * meanTraffic * AADT * days * growth
        ELSE IF repairID \in categoryTen THEN
            IF n = 0 THEN 0
            ELSE Scale * meanRepair * deckLength * deckWidth
                 + Scale * meanTraffic * AADT * days * growth
        ELSE IF repairID \in categoryEleven THEN
            IF n = 0 THEN 0
            ELSE meanRepair * deckLength * deckWidth * impCoeff
                 * meanTraffic * AADT * days * growth
        ELSE 0

(***************************************************************************)
(* findOptEnvSchedule / findOptCostSchedule: the tables                    *)
(***************************************************************************)
Years   == 0..Horizon
Ratings == 0..MaxRating

\* float M[101][9] after "M[i][j]=0"; int preX/preY/preRepair[101][9] are
\* declared without an initialiser
InitTables ==
    [M         |-> [y \in Years |-> [r \in Ratings |-> 0]],
     preX      |-> [y \in Years |-> [r \in Ratings |-> Undef]],
     preY      |-> [y \in Years |-> [r \in Ratings |-> Undef]],
     preRepair |-> [y \in Years |-> [r \in Ratings |-> Undef]]]

\* one pass of the "boundary conditions" loop body for a given rating:
\* every year of [lo, hi] gets, for i = 8..1, M = 0 if i >= rating else
\* +infinity, and the pointers (-1, 0, 0); index 0 is not touched
BoundaryWindow(T, lo, hi, rating) ==
    LET inWin(y) == lo <= y /\ y <= hi
    IN  [M         |-> [y \in Years |-> IF inWin(y)
                          THEN [i \in Ratings |-> IF i = 0 THEN T.M[y][i]
                                                  ELSE IF i >= rating THEN 0 ELSE Inf]
                          ELSE T.M[y]],
         preX      |-> [y \in Years |-> IF inWin(y)
                          THEN [i \in Ratings |-> IF i = 0 THEN T.preX[y][i] ELSE -1]
                          ELSE T.preX[y]],
         preY      |-> [y \in Years |-> IF inWin(y)
                          THEN [i \in Ratings |-> IF i = 0 THEN T.preY[y][i] ELSE 0]
                          ELSE T.preY[y]],
         preRepair |-> [y \in Years |-> IF inWin(y)
                          THEN [i \in Ratings |-> IF i = 0 THEN T.preRepair[y][i] ELSE 0]
                          ELSE T.preRepair[y]]]

\* for (rating = startRating-1; rating > limit-1; rating--)
\*   for (year = ratingsDecay[startRating][rating+1]; year <= ratingsDecay[startRating][rating]; year++)
RECURSIVE BoundaryFrom(_, _, _, _, _)
BoundaryFrom(T, dec, startRating, rating, limit) ==
    IF ~(rating > limit - 1) THEN T
    ELSE BoundaryFrom(BoundaryWindow(T, dec[startRating][rating + 1],
                                     dec[startRating][rating], rating),
                      dec, startRating, rating - 1, limit)

BoundaryInit(in) ==
    BoundaryFrom(InitTables, in.ratingsDecay, in.bridge.startRating,
                 in.bridge.startRating - 1, in.limit)

\* the boundary loop writes M[year][i] with a year outside 0..100
BoundaryOutOfRange(in) ==
    LET s == in.bridge.startRating
    IN  \E rating \in in.limit..(s - 1) :
           LET lo == in.ratingsDecay[s][rating + 1]
               hi == in.ratingsDecay[s][rating]
           IN  lo <= hi /\ (hi > Horizon \/ lo < 0)

(***************************************************************************)
(* the forward fill                                                        *)
(***************************************************************************)
\* map<int,float>::operator[]: a missing key reads as 0
CostFactor(costs, repairID) ==
    IF repairID \in DOMAIN costs THEN costs[repairID] ELSE 0

\* tempRepairCost of one matching catalog row; the cost variant multiplies
\* by the cost factor and divides by (1+r)^yearDecay (exact for the
\* discount rates of the model, where the divisor is 1)
TempRepairCost(in, yearDecay, repairID, j, gc) ==
    LET c == calEnvImpact(in.bridge, yearDecay, repairID, j, in.repairs, in.impMat, gc)
    IN  IF in.variant = "env" THEN c
        ELSE (c * CostFactor(in.costs, repairID))
             \div Pow(in.bridge.discountRate + 1, yearDecay)

\* if (i == 7 && improvement == 7 && LB <= j <= UB) ... else if (improvement == i-j && LB <= j <= UB)
RowMatches(rp, i, j) ==
    \/ (i = 7 /\ rp.improvement = 7 /\ (j <= rp.UB /\ j >= rp.LB))
    \/ (rp.improvement = i - j /\ (j <= rp.UB /\ j >= rp.LB))

\* the loop over k for one j: a matching row cheaper than acc = [repairCost,
\* repairId] replaces it, the first one on ties
RECURSIVE RepairCostFrom(_, _, _, _, _, _, _)
RepairCostFrom(in, i, j, yearDecay, k, acc, gc) ==
    IF k > Len(in.repairs) THEN acc
    ELSE LET rp == in.repairs[k]
             t  == TempRepairCost(in, yearDecay, rp.repairID, j, gc)
         IN  RepairCostFrom(in, i, j, yearDecay, k + 1,
                 IF RowMatches(rp, i, j) /\ t < acc.repairCost
                 THEN [repairCost |-> t, repairId |-> rp.repairID]
                 ELSE acc, gc)

\* float repairCost = infinity; int repairId = 0;  (declared in the body of
\* the loop over i, before the loop over j)
NoRepair == [repairCost |-> Inf, repairId |-> 0]

\* repairCost and repairId after the loop over k at j: they are not reset
\* between two values of j, so a cheaper row matched at a smaller j stays
RepairCost(in, rc, i, j, yearDecay, gc) ==
    RepairCostFrom(in, i, j, yearDecay, 1, rc, gc)

\* the comparison "tempCost < min" in both functions
ImprovesStrict(variant, tempCost, min) == tempCost < min
\* "tempCost <= min" in findOptEnvSchedule, "tempCost < min" in findOptCostSchedule
Improves(variant, tempCost, min) ==
    IF variant = "env" THEN tempCost <= min ELSE tempCost < min

\* preX[yearDecay][j] != yearDecay; an uninitialised pointer compares as the
\* garbage choice g.same says
SameYearGuard(px, yearDecay, g) ==
    IF px = Undef THEN ~g.same ELSE px # yearDecay

\* tempCost = M[yearDecay][j] + repairCost
TempCost(T, rc, j, yearDecay) == Add(T.M[yearDecay][j], rc.repairCost)

\* tempCost <= min && tempCost != 0 (the part of the condition that is
\* evaluated before the pointer is read)
Candidate(in, st, rc, j, yearDecay) ==
    /\ Improves(in.variant, TempCost(st.T, rc, j, yearDecay), st.min)
    /\ TempCost(st.T, rc, j, yearDecay) # 0

\* min = tempCost; preX = yearDecay; preY = j; preRepair = repairId
Take(st, rc, year, rating, j, yearDecay) ==
    [T     |-> [st.T EXCEPT !.preX[year][rating] = yearDecay,
                            !.preY[year][rating] = j,
                            !.preRepair[year][rating] = rc.repairId],
     min   |-> TempCost(st.T, rc, j, yearDecay),
     undef |-> st.undef \/ st.T.preX[yearDecay][j] = Undef,
     rc    |-> rc]

\* the loop over j for one i.  st = [T, min, undef, rc]; undef records that
\* an uninitialised pointer was read, rc is [repairCost, repairId]
RECURSIVE LoopJ(_, _, _, _, _, _, _, _)
LoopJ(in, st, year, rating, i, yearDecay, j, g) ==
    IF ~(j < i) THEN st
    ELSE LET rc == RepairCost(in, st.rc, i, j, yearDecay, g.coef)
         IN  IF ~Candidate(in, st, rc, j, yearDecay)
             THEN LoopJ(in, [st EXCEPT !.rc = rc], year, rating, i, yearDecay,
                        j + 1, g)
             ELSE IF SameYearGuard(st.T.preX[yearDecay][j], yearDecay, g)
             THEN LoopJ(in, Take(st, rc, year, rating, j, yearDecay),
                        year, rating, i, yearDecay, j + 1, g)
             ELSE LoopJ(in, [st EXCEPT !.undef = @ \/ st.T.preX[yearDecay][j] = Undef,
                                       !.rc = rc],
                        year, rating, i, yearDecay, j + 1, g)

\* the loop over i starting at rating+1 in both functions
FirstIAbove(variant, rating) == rating + 1
\* first value of i: rating+1 in findOptEnvSchedule, rating in findOptCostSchedule
FirstI(variant, rating) == IF variant = "env" THEN rating + 1 ELSE rating

\* the loop over i left already at yearDecay = 0
BreaksAtZero(yearDecay) == yearDecay <= 0
\* if (yearDecay < 0) break;
Breaks(yearDecay) == yearDecay < 0

\* the loop over i, left with "break" at the first negative yearDecay
RECURSIVE LoopI(_, _, _, _, _, _)
LoopI(in, st, year, rating, i, g) ==
    IF ~(i < 9) THEN st
    ELSE LET yearDecay == year - in.ratingsDecay[i][rating]
         IN  IF Breaks(yearDecay) THEN st
             ELSE LoopI(in, LoopJ(in, [st EXCEPT !.rc = NoRepair], year, rating,
                                  i, yearDecay, in.limit, g),
                        year, rating, i + 1, g)

\* the values of i for which the loop over i, entered at i, runs its body
\* in cell (year, rating) with the decay table dec
RECURSIVE ConsideredI(_, _, _, _)
ConsideredI(dec, year, rating, i) ==
    IF ~(i < 9) \/ Breaks(year - dec[i][rating]) THEN {}
    ELSE {i} \cup ConsideredI(dec, year, rating, i + 1)

\* the decay entry of the boundary test read for every rating
TestsDecayAlways(in, rating) == TRUE
\* the left operand of the boundary test: the right operand, which reads
\* the decay table, is evaluated only where it holds
TestsDecay(in, rating) == rating <= in.bridge.startRating

\* rating <= startRating && ratingsDecay[startRating][rating] >= year
IsBoundary(in, year, rating) ==
    /\ TestsDecay(in, rating)
    /\ in.ratingsDecay[in.bridge.startRating][rating] >= year

\* the entries <<i, j>> of ratingsDecay read as the bounds of the loops
\* over year of the boundary conditions
BoundaryReads(in) ==
    LET s == in.bridge.startRating
    IN  UNION { {<<s, r + 1>>, <<s, r>>} : r \in in.limit..(s - 1) }

\* the entries <<i, j>> of ratingsDecay read in the body of the loop over
\* rating for the cell (year, rating): by the boundary test, and by the
\* loop over i up to and including the i at which it is left
FillReads(in, year, rating) ==
    LET s == in.bridge.startRating
        from == FirstI(in.variant, rating)
    IN  (IF TestsDecay(in, rating) THEN {<<s, rating>>} ELSE {})
        \cup (IF IsBoundary(in, year, rating) THEN {}
              ELSE { <<i, rating>> : i \in
                       { k \in from..MaxRating :
                           (from..(k - 1)) \subseteq
                               ConsideredI(in.ratingsDecay, year, rating, from) } })

\* body of the loop over rating for one (year, rating); F = [T, undef]
FillCell(in, F, year, rating, g) ==
    IF IsBoundary(in, year, rating) THEN F
    ELSE LET st == LoopI(in, [T |-> F.T, min |-> Inf, undef |-> F.undef,
                              rc |-> NoRepair],
                         year, rating, FirstI(in.variant, rating), g)
         IN  [T     |-> [st.T EXCEPT !.M[year][rating] = st.min],
              undef |-> st.undef]

(***************************************************************************)
(* "outputs the optimal schedule to a text file": the scan of year 100     *)
(* and the walk along the predecessor pointers                             *)
(***************************************************************************)
\* number of cells of a table: a walk that has not stopped after so many
\* steps is back at a cell it has left, and never stops
WalkBound == (Horizon + 1) * (MaxRating + 1)

\* the loop conditions of the two walks, read at cell c = <<x, y>>:
\*   dump:  while (preX[x][y] >= 0)
\*   recon: while (preX[x][y] > -1 && preRepair[x][y] > 0)
\* a pointer that was never written stops the model's walk; what the code
\* does there is left to the caller
Stops(T, walk, c) ==
    LET px == T.preX[c[1]][c[2]]
    IN  \/ px = Undef
        \/ IF walk = "dump" THEN ~(px >= 0)
           ELSE ~(px > -1 /\ T.preRepair[c[1]][c[2]] > 0)

\* temp = x; x = preX[x][y]; y = preY[temp][y];
Advance(T, walk, c) ==
    IF Stops(T, walk, c) THEN c ELSE <<T.preX[c[1]][c[2]], T.preY[c[1]][c[2]]>>

\* the cells the walk from c stands on, up to the cell at which it stops
\* and at most n of them
RECURSIVE Trail(_, _, _, _)
Trail(T, walk, c, n) ==
    IF n <= 1 \/ Stops(T, walk, c) THEN <<c>>
    ELSE LET head == Trail(T, walk, c, n \div 2)
             last == head[Len(head)]
         IN  IF Stops(T, walk, last) THEN head
             ELSE head \o Trail(T, walk, Advance(T, walk, last), n - (n \div 2))

\* "end": a negative pointer stops the walk; "hang": the walk comes back to
\* a cell it has left, so it never stops; "undef": it reads a pointer that
\* was never written
DumpWalk(T, x, y) ==
    LET tr   == Trail(T, "dump", <<x, y>>, WalkBound + 1)
        last == tr[Len(tr)]
    IN  IF ~Stops(T, "dump", last) THEN "hang"
        ELSE IF T.preX[last[1]][last[2]] = Undef THEN "undef"
        ELSE "end"

\* for (i = limit; i < 8; i++): acc = [minTotalCost, optFinalCondition,
\* status, undef].  A walk that reads an uninitialised pointer either sees
\* a negative number and stops (crash = FALSE) or leaves the tables
\* (crash = TRUE)
RECURSIVE DumpFrom(_, _, _, _)
DumpFrom(T, i, acc, crash) ==
    IF ~(i < 8) \/ acc.status # "ok" THEN acc
    ELSE LET better == T.M[Horizon][i] < acc.minTotalCost
             w      == DumpWalk(T, Horizon, i)
         IN  DumpFrom(T, i + 1,
                 [minTotalCost      |-> IF better THEN T.M[Horizon][i]
                                        ELSE acc.minTotalCost,
                  optFinalCondition |-> IF better THEN i ELSE acc.optFinalCondition,
                  status            |-> IF w = "hang" THEN "hang"
                                        ELSE IF w = "undef" /\ crash THEN "undefined"
                                        ELSE "ok",
                  undef             |-> acc.undef \/ w = "undef"],
                 crash)

Dump(T, limit, crash) ==
    DumpFrom(T, limit, [minTotalCost |-> Inf, optFinalCondition |-> Undef,
                        status |-> "ok", undef |-> FALSE], crash)

(***************************************************************************)
(* "update the optSchedule Matrix": the reconstruction                     *)
(***************************************************************************)
\* while (preX[x][y] > -1 && preRepair[x][y] > 0) { temp.push_back(...); ... }
\* tr is the trail of the walk.  A cell whose pointers were never written
\* holds garbage: it reads as a negative year or a non-positive repair
\* (g.mode = "stop"), as a year of the table with a positive repair that
\* leads to a cell that stops ("entry"), or as an index outside the tables
\* ("fault")
ReconWalk(T, tr, startYear, g) ==
    LET moving(c) == ~Stops(T, "recon", c)
        cells == SelectSeq(tr, moving)
        last  == tr[Len(tr)]
        undef == T.preX[last[1]][last[2]] = Undef
        temp  == [k \in 1..Len(cells) |->
                    [repairID   |-> T.preRepair[cells[k][1]][cells[k][2]],
                     repairYear |-> T.preX[cells[k][1]][cells[k][2]] + startYear]]
    IN  IF moving(last)
        THEN [status |-> "hang", temp |-> temp, undef |-> FALSE]
        ELSE IF ~undef
        THEN [status |-> "end", temp |-> temp, undef |-> FALSE]
        ELSE [status |-> IF g.mode = "fault" THEN "undefined" ELSE "end",
              temp   |-> IF g.mode = "entry"
                         THEN Append(temp, [repairID   |-> g.repair,
                                            repairYear |-> g.year + startYear])
                         ELSE temp,
              undef  |-> TRUE]

\* for (n = temp.size()-1; n > -1; n--) optSchedule.push_back(temp[n]);
Reversed(temp) == [n \in 1..Len(temp) |-> temp[Len(temp) + 1 - n]]

(***************************************************************************)
(* mergeFourSched                                                          *)
(***************************************************************************)
\* int min = 9999
MinSentinel == 9999
\* int min_i = 5
NoIndex == 5
\* what itStart[i]->repairYear reads when itStart[i] is the end iterator
\* of an unmapped (null) buffer
Fault == -1

AtEnd(vec, it, i) == it[i] > Len(vec[i])

\* itStart[i]->repairYear: an element of the input, or the memory behind
\* its last element (slot[i]) when the iterator is at the end
HeadYear(vec, it, slot, i) ==
    IF AtEnd(vec, it, i) THEN slot[i] ELSE vec[i][it[i]].repairYear

\* a comparison that every head passes
HeadBeatsAlways(headYear, min) == TRUE
\* the comparison with "<" instead of "<="
HeadBeatsStrict(headYear, min) == headYear < min
\* (itStart[i]->repairYear <= min)
HeadBeats(headYear, min) == headYear <= min

\* for (i = 0; i < 4; i++) if (!ends[i] && itStart[i]->repairYear <= min) ...
\* acc = [min, min_i, fault]; fault: a read through a null end iterator
RECURSIVE SelectFrom(_, _, _, _, _, _)
SelectFrom(vec, it, ends, slot, i, acc) ==
    IF ~(i < 4) \/ acc.fault THEN acc
    ELSE IF ends[i] THEN SelectFrom(vec, it, ends, slot, i + 1, acc)
    ELSE LET h == HeadYear(vec, it, slot, i)
         IN  IF AtEnd(vec, it, i) /\ h = Fault
             THEN [acc EXCEPT !.fault = TRUE]
             ELSE SelectFrom(vec, it, ends, slot, i + 1,
                     IF HeadBeats(h, acc.min)
                     THEN [min |-> h, min_i |-> i, fault |-> FALSE]
                     ELSE acc)

Select(vec, it, ends, slot) ==
    SelectFrom(vec, it, ends, slot, 0,
               [min |-> MinSentinel, min_i |-> NoIndex, fault |-> FALSE])

(***************************************************************************)
(* ratingDecay                                                             *)
(***************************************************************************)
\* scale of the coefficients a, b, c of the fitted curve
\* rating = a*t^2 + b*t + c: a curve is <<a, b, c>> counted in 1/CoefScale
CoefScale == 100

LowData  == "Need more low condition rating data."
HighData == "Need more high condition rating data."

\* floor(n / d) for d # 0
FloorDiv(n, d) == IF d > 0 THEN n \div d ELSE (0 - n) \div (0 - d)

\* floor(sqrt(v)) for v >= 0
RECURSIVE ISqrtIn(_, _, _)
ISqrtIn(v, lo, hi) ==
    IF lo >= hi THEN lo
    ELSE LET mid == (lo + hi + 1) \div 2
         IN  IF mid <= v \div mid THEN ISqrtIn(v, mid, hi)
             ELSE ISqrtIn(v, lo, mid - 1)
ISqrt(v) == ISqrtIn(v, 0, v)

\* (-pow(b, 2)+4*a*c)/(4*a) as the fraction num/den, in ratings
VertexNum(cv) == 4 * cv[1] * cv[3] - cv[2] * cv[2]
VertexDen(cv) == 4 * cv[1] * CoefScale

\* the comparison of the vertex rating with limit turned round
VertexAboveFlipped(cv, limit) ==
    IF VertexDen(cv) > 0 THEN VertexNum(cv) < limit * VertexDen(cv)
    ELSE VertexNum(cv) > limit * VertexDen(cv)
\* (-pow(b, 2)+4*a*c)/(4*a) > limit
VertexAbove(cv, limit) ==
    IF VertexDen(cv) > 0 THEN VertexNum(cv) > limit * VertexDen(cv)
    ELSE VertexNum(cv) < limit * VertexDen(cv)

\* the comparison of the vertex rating with 9 turned round
VertexBelowFlipped(cv, top) ==
    IF VertexDen(cv) > 0 THEN VertexNum(cv) > top * VertexDen(cv)
    ELSE VertexNum(cv) < top * VertexDen(cv)
\* (-pow(b, 2)+4*a*c)/(4*a) < 9
VertexBelow(cv, top) ==
    IF VertexDen(cv) > 0 THEN VertexNum(cv) < top * VertexDen(cv)
    ELSE VertexNum(cv) > top * VertexDen(cv)

\* "validate the data": the message of the BlackBoxError thrown, "" if none
Validate(cv, limit) ==
    IF cv[1] > 0
    THEN IF VertexAbove(cv, limit) THEN LowData ELSE ""
    ELSE IF VertexBelow(cv, TopRating) THEN HighData ELSE ""

\* pow(b, 2)-4*a*c with c = coeff[2] - i, in 1/CoefScale^2
Discriminant(cv, i) == cv[2] * cv[2] - 4 * cv[1] * (cv[3] - i * CoefScale)

\* timePoints[i] = (-1*b - sqrt(pow(b, 2)-4*a*c))/(2*a), in hundredths of a
\* year (the square root rounded down to a hundredth)
TimePoint(cv, i) ==
    FloorDiv(0 - Scale * cv[2] - ISqrt(Scale * Scale * Discriminant(cv, i)),
             2 * cv[1])

\* int ratingsDecay[10][10]; before ratingDecay has written it
UnsetDecay == [i \in 0..TopRating |-> [j \in 0..TopRating |-> Undef]]

\* ratingsDecay[i][j] = floor(timePoints[j] - timePoints[i]) for
\* i = 9..limit, j = i..limit
RatingDecayTable(cv, limit) ==
    [i \in 0..TopRating |-> [j \in 0..TopRating |->
        IF limit <= j /\ j <= i
        THEN FloorDiv(TimePoint(cv, j) - TimePoint(cv, i), Scale)
        ELSE Undef]]

(***************************************************************************)
(* Inputs of a run                                                         *)
(***************************************************************************)
\* impMat as optSchedule builds it: ratings 4, 5, 6 -> 0.15, 0.10, 0.05
ImpMat ==
    <<[condition |-> 4, coef |-> 15], [condition |-> 5, coef |-> 10],
      [condition |-> 6, coef |-> 5]>>

\* timePoints[9..4] of ratingDecay, counted in half years
TP(t9, t8, t7, t6, t5, t4) ==
    [r \in 4..TopRating |-> CASE r = 9 -> t9 [] r = 8 -> t8 [] r = 7 -> t7
                              [] r = 6 -> t6 [] r = 5 -> t5 [] r = 4 -> t4]

\* ratingsDecay[i][j] = floor(timePoints[j] - timePoints[i]) for
\* i = 9..limit, j = i..limit; the other entries are never written
DecayTable(tp, limit) ==
    [i \in 0..TopRating |-> [j \in 0..TopRating |->
        IF limit <= j /\ j <= i THEN (tp[j] - tp[i]) \div 2 ELSE Undef]]

TimePointSet ==
    { TP(0, 10, 22, 36, 52, 70),      \* a few repairs per century
      TP(0, 25, 26, 26, 28, 29),      \* steep: several ratings lost in a year
      TP(0, 60, 120, 200, 280, 330),  \* slow: rating 7 outlasts the horizon
      TP(0, 8, 16, 16, 16, 76) }      \* a cliff between 7 and 5

Row(id, lb, ub, imp, mr, mt, d) ==
    [repairID |-> id, LB |-> lb, UB |-> ub, improvement |-> imp,
     duration |-> d, repairMean |-> mr, trafficMean |-> mt]

CatalogSet ==
    { <<>>,
      <<Row(8, 4, 8, 1, 1, 0, 1)>>,                       \* only "no data" repairs
      <<Row(5, 4, 6, 2, 1, 0, 1)>>,
      <<Row(11, 5, 7, 1, 2, 0, 1), Row(5, 5, 6, 7, 2, 0, 1)>>,
      <<Row(5, 4, 7, 7, 2, 0, 1), Row(17, 5, 8, 1, 2, 0, 1),
        Row(6, 6, 8, 1, 1, 1, 1)>> }

\* readRepairCost: repairID -> cost, for the repairs of the catalog
PriceList == (5 :> 3) @@ (6 :> 1) @@ (8 :> 1) @@ (11 :> 1) @@ (17 :> 2)
CostMap(repairs) ==
    [id \in {repairs[k].repairID : k \in 1..Len(repairs)} |-> PriceList[id]]

Variants     == {"env", "cost"}
Limits       == {4}
StartRatings == {4, 7}
\* largest deck width of the model
MaxWidth     == 1

Inputs ==
    { [variant      |-> v,
       limit        |-> l,
       bridge       |-> [bridgeLength |-> 2, bridgeWidth |-> w, bridgeAADT |-> 1,
                         trafficGrowthRate |-> 0, discountRate |-> 0,
                         startRating |-> s, startYear |-> 2000],
       ratingsDecay |-> DecayTable(tp, l),
       repairs      |-> cat,
       costs        |-> CostMap(cat),
       impMat       |-> ImpMat] :
      v \in Variants, l \in Limits, s \in StartRatings, w \in 1..MaxWidth,
      tp \in TimePointSet, cat \in CatalogSet }

\* what an uninitialised read yields during the fill: whether a pointer
\* compares equal to yearDecay, and the value of impCoeff (hundredths)
\* a catalog row that calEnvImpact evaluates with impCoeff at a rating
\* outside impMat
ReadsImpCoeff(id) ==
    id \in categoryOne \cup categoryTwo \cup categoryFour \cup categorySix
          \cup categoryNine \cup categoryEleven
CoefUnset(in) ==
    \E k \in 1..Len(in.repairs) :
       /\ ReadsImpCoeff(in.repairs[k].repairID)
       /\ \E r \in in.repairs[k].LB..in.repairs[k].UB :
             \A n \in 1..Len(in.impMat) : in.impMat[n].condition # r
FillGarbage(in) ==
    [same : BOOLEAN, coef : IF CoefUnset(in) THEN {0, 20} ELSE {0}]
GarbageRepair == 99
\* no uninitialised cell has been read yet
Unread == [same |-> FALSE, coef |-> Undef]
ReconGarbage == [mode : {"stop", "entry", "fault"}, year : {0, Horizon},
                 repair : {GarbageRepair}]

(***************************************************************************)
(* State                                                                   *)
(***************************************************************************)
VARIABLES
    inp,                \* arguments of findOptEnvSchedule / findOptCostSchedule
    M, preX, preY, preRepair,
    pc,                 \* position in the function body
    year, rating,       \* counters of the fill loops
    x, y,               \* cell at which the reconstruction walk stands
    minTotalCost, optFinalCondition,
    optSchedule,        \* RepairSchedule &optSchedule
    ret,                \* the value returned
    undefRead,          \* phases in which uninitialised memory was read
    garbage,            \* what the uninitialised cells read during the fill hold
    first,              \* <<objective, schedule>> of the first of two calls
    vec,                \* vec1..vec4 of mergeFourSched (indices 0..3)
    slot,               \* memory behind the last element of each input
    itStart, ends, result, min, min_i,
    mpc,                \* position in mergeFourSched
    run,                \* what one call of BlackBoxI::optSchedule works on
    rpc,                \* position in optSchedule
    ratingsDecay,       \* int ratingsDecay[10][10] of optSchedule
    calls,              \* the functions optSchedule has called, in order
    error,              \* message of the first BlackBoxError thrown, "" if none
    impactArgs,         \* arguments of the last call of calEnvImpact
    CO2,                \* the value the last call of calEnvImpact returned
    lastCO2             \* the value the call before it returned

schedVars == <<inp, M, preX, preY, preRepair, pc, year, rating, x, y, minTotalCost,
               optFinalCondition, optSchedule, ret, undefRead, garbage, first>>
mergeVars == <<vec, slot, itStart, ends, result, min, min_i, mpc>>
runVars == <<run, rpc, ratingsDecay, calls, error>>
impactVars == <<impactArgs, CO2, lastCO2>>
vars == <<schedVars, mergeVars, runVars, impactVars>>

Tables == [M |-> M, preX |-> preX, preY |-> preY, preRepair |-> preRepair]

MergeIdle ==
    /\ vec = <<>> /\ slot = <<>> /\ itStart = <<>> /\ ends = <<>>
    /\ result = <<>> /\ min = MinSentinel /\ min_i = NoIndex /\ mpc = "idle"

RunIdle ==
    /\ run = <<>> /\ rpc = "idle" /\ ratingsDecay = <<>> /\ calls = <<>>
    /\ error = ""

ImpactIdle == impactArgs = <<>> /\ CO2 = Undef /\ lastCO2 = Undef

SchedIdle ==
    /\ inp = <<>> /\ M = <<>> /\ preX = <<>> /\ preY = <<>> /\ preRepair = <<>>
    /\ pc = "idle" /\ year = 0 /\ rating = 0 /\ x = Horizon /\ y = 5
    /\ minTotalCost = Inf /\ optFinalCondition = Undef
    /\ optSchedule = <<>> /\ ret = Undef /\ undefRead = {} /\ garbage = Unread
    /\ first = <<>>

(***************************************************************************)
(* findOptEnvSchedule / findOptCostSchedule as a state machine             *)
(***************************************************************************)
InitSched ==
    /\ inp \in Inputs
    /\ M = InitTables.M /\ preX = InitTables.preX
    /\ preY = InitTables.preY /\ preRepair = InitTables.preRepair
    /\ pc = "boundary" /\ year = 0 /\ rating = inp.limit /\ x = Horizon /\ y = 5
    /\ minTotalCost = Inf /\ optFinalCondition = Undef
    /\ optSchedule = <<>> /\ ret = Undef /\ undefRead = {} /\ garbage = Unread
    /\ first = <<>>
    /\ MergeIdle
    /\ RunIdle
    /\ ImpactIdle

\* the boundary loop, all its writes inside the tables
BoundaryConditions ==
    /\ pc = "boundary" /\ ~BoundaryOutOfRange(inp)
    /\ LET T == BoundaryInit(inp)
       IN  /\ M' = T.M /\ preX' = T.preX /\ preY' = T.preY
           /\ preRepair' = T.preRepair
    /\ pc' = "fill"
    /\ UNCHANGED <<inp, year, rating, x, y, minTotalCost, optFinalCondition,
                   optSchedule, ret, undefRead, garbage, first, mergeVars, runVars, impactVars>>

\* the boundary loop writes behind M[100]: the stack frame is corrupted
BoundaryOverrun ==
    /\ pc = "boundary" /\ BoundaryOutOfRange(inp)
    /\ pc' = "undefined"
    /\ UNCHANGED <<inp, M, preX, preY, preRepair, year, rating, x, y, minTotalCost,
                   optFinalCondition, optSchedule, ret, undefRead, garbage,
                   first, mergeVars, runVars, impactVars>>

\* one iteration of "for (rating = limit; rating < 9; rating++)" inside
\* "for (year = 0; year < 101; year++)"
FillStep ==
    /\ pc = "fill" /\ year < 101 /\ rating < 9
    /\ \E g \in (IF garbage = Unread THEN FillGarbage(inp) ELSE {garbage}) :
          LET F == FillCell(inp, [T |-> Tables, undef |-> FALSE], year, rating, g)
          IN  /\ M' = F.T.M /\ preX' = F.T.preX /\ preY' = F.T.preY
              /\ preRepair' = F.T.preRepair
              /\ undefRead' = IF F.undef THEN undefRead \cup {"fill"} ELSE undefRead
              /\ garbage' = g
    /\ IF rating + 1 < 9
       THEN /\ rating' = rating + 1 /\ year' = year /\ pc' = "fill"
       ELSE /\ rating' = inp.limit /\ year' = year + 1
            /\ pc' = IF year + 1 < 101 THEN "fill" ELSE "dump"
    /\ UNCHANGED <<inp, x, y, minTotalCost, optFinalCondition, optSchedule,
                   ret, first, mergeVars, runVars, impactVars>>

\* the scan of year 100 with the walks written to the text file
DumpStep ==
    /\ pc = "dump"
    /\ \E crash \in BOOLEAN :
          LET d == Dump(Tables, inp.limit, crash)
          IN  /\ minTotalCost' = d.minTotalCost
              /\ optFinalCondition' = d.optFinalCondition
              /\ pc' = IF d.status = "ok" THEN "recon" ELSE d.status
              /\ undefRead' = IF d.undef THEN undefRead \cup {"dump"} ELSE undefRead
    /\ UNCHANGED <<inp, M, preX, preY, preRepair, year, rating, x, y, optSchedule,
                   ret, garbage, first, mergeVars, runVars, impactVars>>

\* x = 100; y = optFinalCondition;
ReconStart ==
    /\ pc = "recon"
    /\ x' = Horizon
    /\ IF optFinalCondition = Undef
       THEN /\ y' \in Ratings
            /\ undefRead' = undefRead \cup {"recon"}
       ELSE /\ y' = optFinalCondition
            /\ undefRead' = undefRead
    /\ pc' = "walk"
    /\ UNCHANGED <<inp, M, preX, preY, preRepair, year, rating, minTotalCost,
                   optFinalCondition, optSchedule, ret, garbage, first, mergeVars, runVars, impactVars>>

\* the reconstruction loop, the copy into optSchedule and the return
ReconStep ==
    /\ pc = "walk"
    /\ LET tr == Trail(Tables, "recon", <<x, y>>, WalkBound + 1)
       IN  \E g \in ReconGarbage :
              LET w == ReconWalk(Tables, tr, inp.bridge.startYear, g)
              IN  /\ pc' = IF w.status = "end" THEN "done" ELSE w.status
                  /\ optSchedule' = IF w.status = "end"
                                    THEN optSchedule \o Reversed(w.temp)
                                    ELSE optSchedule
                  /\ ret' = IF w.status = "end" THEN minTotalCost ELSE ret
                  /\ undefRead' = IF w.undef THEN undefRead \cup {"recon"}
                                  ELSE undefRead
    /\ UNCHANGED <<inp, M, preX, preY, preRepair, year, rating, x, y, minTotalCost,
                   optFinalCondition, garbage, first, mergeVars, runVars, impactVars>>

Next ==
    \/ BoundaryConditions
    \/ BoundaryOverrun
    \/ FillStep
    \/ DumpStep
    \/ ReconStart
    \/ ReconStep

Spec == InitSched /\ [][Next]_vars

\* the caller runs the function a second time with the arguments of the
\* first call and an empty optSchedule, keeping the first call's result
Rerun ==
    /\ pc = "done" /\ first = <<>>
    /\ first' = <<ret, optSchedule>>
    /\ M' = InitTables.M /\ preX' = InitTables.preX
    /\ preY' = InitTables.preY /\ preRepair' = InitTables.preRepair
    /\ pc' = "boundary" /\ year' = 0 /\ rating' = inp.limit
    /\ x' = Horizon /\ y' = 5
    /\ minTotalCost' = Inf /\ optFinalCondition' = Undef
    /\ optSchedule' = <<>> /\ ret' = Undef /\ undefRead' = {}
    /\ garbage' = Unread
    /\ UNCHANGED <<inp, mergeVars, runVars, impactVars>>

NextRerun ==
    \/ BoundaryConditions
    \/ BoundaryOverrun
    \/ FillStep
    \/ DumpStep
    \/ ReconStart
    \/ ReconStep
    \/ Rerun

\* the two calls are calls of findOptEnvSchedule
InitRerun == InitSched /\ inp.variant = "env"

SpecRerun == InitRerun /\ [][NextRerun]_vars

(***************************************************************************)
(* mergeFourSched as a state machine                                       *)
(***************************************************************************)
\* largest number of entries of the four inputs together
MaxTotal == 5
\* repair years of the inputs are 0..MaxYear
MaxYear == 1
\* a year above the sentinel 9999
Beyond == 10000
\* what the memory behind an empty input can read as: unmapped, a small
\* year, a year above the sentinel
SlotGarbage == {Fault, 0, Beyond}

Indices == 0..3

\* schedules of vector i with n entries, ordered by ascending repairYear;
\* the repairID names the input the entry comes from
SortedOfLen(i, n) ==
    { [k \in 1..n |-> [repairID |-> i + 1, repairYear |-> ys[k]]] :
        ys \in { f \in [1..n -> 0..MaxYear] :
                   \A k \in 1..(n - 1) : f[k] <= f[k + 1] } }
SortedUpTo(i, n) == UNION { SortedOfLen(i, m) : m \in 0..n }

AllEnds(e) == e[0] /\ e[1] /\ e[2] /\ e[3]

InitMerge ==
    /\ \E v0 \in SortedUpTo(0, MaxTotal) :
       \E v1 \in SortedUpTo(1, MaxTotal - Len(v0)) :
       \E v2 \in SortedUpTo(2, MaxTotal - Len(v0) - Len(v1)) :
       \E v3 \in SortedUpTo(3, MaxTotal - Len(v0) - Len(v1) - Len(v2)) :
          vec = [i \in Indices |-> CASE i = 0 -> v0 [] i = 1 -> v1
                                     [] i = 2 -> v2 [] i = 3 -> v3]
    /\ slot \in [Indices -> SlotGarbage]
    /\ \A i \in Indices : Len(vec[i]) > 0 => slot[i] = Fault
    /\ itStart = [i \in Indices |-> 1]
    /\ ends = [i \in Indices |-> FALSE]
    /\ result = <<>> /\ min = MinSentinel /\ min_i = NoIndex
    /\ mpc = "loop"
    /\ SchedIdle
    /\ RunIdle
    /\ ImpactIdle

\* one iteration of the while loop that pushes an element of an input
MergePush ==
    /\ mpc = "loop" /\ ~AllEnds(ends)
    /\ LET sel == Select(vec, itStart, ends, slot)
           i   == sel.min_i
       IN  /\ ~sel.fault /\ i # NoIndex /\ ~AtEnd(vec, itStart, i)
           /\ min' = sel.min /\ min_i' = i
           /\ result' = Append(result, vec[i][itStart[i]])
           /\ itStart' = [itStart EXCEPT ![i] = @ + 1]
           /\ ends' = [ends EXCEPT ![i] = (itStart[i] + 1 > Len(vec[i]))]
    /\ UNCHANGED <<vec, slot, mpc, schedVars, runVars, impactVars>>

\* an iteration that pushes what lies behind an empty input: the iterator
\* is not advanced, so every later iteration pushes it again
MergePushGarbage ==
    /\ mpc = "loop" /\ ~AllEnds(ends)
    /\ LET sel == Select(vec, itStart, ends, slot)
           i   == sel.min_i
       IN  /\ ~sel.fault /\ i # NoIndex /\ AtEnd(vec, itStart, i)
           /\ min' = sel.min /\ min_i' = i
           /\ result' = Append(result, [repairID |-> GarbageRepair,
                                        repairYear |-> slot[i]])
    /\ mpc' = "diverged"
    /\ UNCHANGED <<vec, slot, itStart, ends, schedVars, runVars, impactVars>>

\* if (min_i == 5) break; return result;
MergeBreak ==
    /\ mpc = "loop" /\ ~AllEnds(ends)
    /\ LET sel == Select(vec, itStart, ends, slot)
       IN  /\ ~sel.fault /\ sel.min_i = NoIndex
           /\ min' = sel.min /\ min_i' = sel.min_i
    /\ mpc' = "returned"
    /\ UNCHANGED <<vec, slot, itStart, ends, result, schedVars, runVars, impactVars>>

\* the loop condition fails: return result;
MergeExit ==
    /\ mpc = "loop" /\ AllEnds(ends)
    /\ mpc' = "returned"
    /\ UNCHANGED <<vec, slot, itStart, ends, result, min, min_i, schedVars, runVars, impactVars>>

\* the read through the end iterator of an empty input faults
MergeFault ==
    /\ mpc = "loop" /\ ~AllEnds(ends)
    /\ Select(vec, itStart, ends, slot).fault
    /\ mpc' = "crashed"
    /\ UNCHANGED <<vec, slot, itStart, ends, result, min, min_i, schedVars, runVars, impactVars>>

NextMerge ==
    \/ MergePush
    \/ MergePushGarbage
    \/ MergeBreak
    \/ MergeExit
    \/ MergeFault

SpecMerge == InitMerge /\ [][NextMerge]_vars

(***************************************************************************)
(* BlackBoxI::optSchedule as a state machine                               *)
(***************************************************************************)
\* fitted curves <<a, b, c>> (in 1/CoefScale), a # 0
CurveSet ==
    { <<-1, 0, 900>>,      \* 9 - 0.01 t^2: the vertex is (0, 9)
      <<-25, 0, 900>>,     \* 9 - 0.25 t^2: several ratings lost in a year
      <<-1, 0, 850>>,      \* the curve never reaches rating 9
      <<-1, -10, 880>>,    \* vertex rating 9.05, before year 0
      <<1, -40, 900>>,     \* opens upward, vertex rating 5
      <<1, -50, 900>>,     \* opens upward, vertex rating 2.75
      <<1, -20, 900>>,     \* opens upward, vertex rating 8
      <<25, -300, 900>> }  \* opens upward, steep, vertex rating 0

\* userIn.ratingLowerLimit
RunLimits == {4, 5}
\* serverIn.componentType; "Other" is a value the switch does not name
ComponentTypes == {"Deck", "Abutment", "PinHanger", "Span", "Column", "Other"}
\* userIn.optObject: 11 selects findOptCostSchedule
OptObjects == {1, 11}

RunInputs ==
    [coeff : CurveSet, limit : RunLimits, componentType : ComponentTypes,
     optObj : OptObjects]

InitRun ==
    /\ run \in RunInputs
    /\ rpc = "start"
    /\ ratingsDecay = UnsetDecay
    /\ calls = <<>>
    /\ error = ""
    /\ SchedIdle
    /\ MergeIdle
    /\ ImpactIdle

\* an exception leaves optSchedule whatever the message
ContinuesAlways(msg) == TRUE
\* control goes on to the next statement only when nothing was thrown
Continues(msg) == msg = ""

\* readServerInput(...); readRatings(userIn.bridgeID, 1): either may throw
ReadInputs ==
    /\ rpc = "start"
    /\ calls' = calls \o <<"readServerInput", "readRatings">>
    /\ \E msg \in {"", "More Ratings Are Needed"} :
          /\ error' = msg
          /\ rpc' = IF Continues(msg) THEN "ratingDecay" ELSE "failed"
    /\ UNCHANGED <<run, ratingsDecay, schedVars, mergeVars, impactVars>>

\* ratingDecay(ratingsDecay, ServerRatings, limit)
RatingDecay ==
    /\ rpc = "ratingDecay"
    /\ calls' = Append(calls, "ratingDecay")
    /\ LET msg == Validate(run.coeff, run.limit)
       IN  /\ error' = msg
           /\ ratingsDecay' = IF msg = ""
                              THEN RatingDecayTable(run.coeff, run.limit)
                              ELSE ratingsDecay
           /\ rpc' = IF Continues(msg) THEN "compile" ELSE "failed"
    /\ UNCHANGED <<run, schedVars, mergeVars, impactVars>>

\* the number of catalogs compiled for a component type
Catalogs(componentType) == IF componentType = "Span" THEN 4 ELSE 1

\* bridgeInfoCompiler ... the switch over serverIn.componentType
Compile ==
    /\ rpc = "compile"
    /\ LET msg == IF run.componentType = "Other"
                  THEN "Unidentified ComponentType" ELSE ""
       IN  /\ error' = IF error = "" THEN msg ELSE error
           /\ calls' = calls \o <<"bridgeInfoCompiler", "readRepairCost",
                                  "readRepairBasicInfo", "readEnvCoef">>
                             \o IF msg = ""
                                THEN [n \in 1..Catalogs(run.componentType) |->
                                         "envInfoCompiler"]
                                ELSE <<>>
           /\ rpc' = IF Continues(msg) THEN "schedule" ELSE "failed"
    /\ UNCHANGED <<run, ratingsDecay, schedVars, mergeVars, impactVars>>

\* if (optObj == 11) findOptCostSchedule(...) else findOptEnvSchedule(...)
Scheduler(optObj) ==
    IF optObj = 11 THEN "findOptCostSchedule" ELSE "findOptEnvSchedule"

Count(seq, name) == Cardinality({ n \in 1..Len(seq) : seq[n] = name })

\* one call of the scheduler, which returns or does not (it hangs or
\* leaves defined behaviour)
Schedule ==
    /\ rpc = "schedule"
    /\ calls' = Append(calls, Scheduler(run.optObj))
    /\ \E returns \in BOOLEAN :
          rpc' = IF ~returns THEN "aborted"
                 ELSE IF Count(calls', Scheduler(run.optObj))
                            < Catalogs(run.componentType)
                 THEN "schedule"
                 ELSE IF run.componentType = "Span" THEN "merge" ELSE "write"
    /\ UNCHANGED <<run, ratingsDecay, error, schedVars, mergeVars, impactVars>>

\* optSchedule = mergeFourSched(optSchedule, optSchedule2, optSchedule3, optSchedule4)
Merge ==
    /\ rpc = "merge"
    /\ calls' = Append(calls, "mergeFourSched")
    /\ \E returns \in BOOLEAN : rpc' = IF returns THEN "write" ELSE "aborted"
    /\ UNCHANGED <<run, ratingsDecay, error, schedVars, mergeVars, impactVars>>

\* writeToServer(...)
WriteToServer ==
    /\ rpc = "write"
    /\ calls' = Append(calls, "writeToServer")
    /\ rpc' = "done"
    /\ UNCHANGED <<run, ratingsDecay, error, schedVars, mergeVars, impactVars>>

NextRun ==
    \/ ReadInputs
    \/ RatingDecay
    \/ Compile
    \/ Schedule
    \/ Merge
    \/ WriteToServer

SpecRun == InitRun /\ [][NextRun]_vars

(***************************************************************************)
(* calEnvImpact as a state machine: one call after the other, each with    *)
(* arguments of the caller's choice                                        *)
(***************************************************************************)
ImpactBridge ==
    [bridgeLength |-> 2, bridgeWidth |-> 1, bridgeAADT |-> 1,
     trafficGrowthRate |-> 0, discountRate |-> 0, startRating |-> 7,
     startYear |-> 2000]

ImpactCatalogs ==
    { <<>>,
      <<Row(5, 4, 6, 2, 1, 0, 1)>>,
      <<Row(45, 4, 8, 1, 2, 1, 1), Row(3, 4, 6, 1, 2, 1, 1)>>,
      <<Row(1, 4, 5, 1, 1, 1, 1), Row(1, 6, 6, 1, 3, 1, 1), Row(8, 4, 8, 1, 1, 1, 1)>> }

ImpactIDs == {1, 3, 5, 8, 34, 45, 99}
ImpactRatings == {4, 6, 8}
ImpactYears == {0, 1}

\* the arguments of a call; gc is what impCoeff holds when no row of impMat
\* has the rating
ImpactCalls ==
    [repairID : ImpactIDs, rating : ImpactRatings, year : ImpactYears,
     repairs : ImpactCatalogs, gc : {0, 20}]

InitImpact ==
    /\ ImpactIdle
    /\ SchedIdle
    /\ MergeIdle
    /\ RunIdle

\* float calEnvImpact(bridge, year, repairID, rating, repairs, impMat)
CallEnvImpact ==
    /\ \E a \in ImpactCalls :
          /\ impactArgs' = a
          /\ CO2' = calEnvImpact(ImpactBridge, a.year, a.repairID, a.rating,
                                 a.repairs, ImpMat, a.gc)
    /\ lastCO2' = CO2
    /\ UNCHANGED <<schedVars, mergeVars, runVars>>

NextImpact == CallEnvImpact

SpecImpact == InitImpact /\ [][NextImpact]_vars

(***************************************************************************)
(* Replay of a schedule against the decay table                            *)
(***************************************************************************)
Range(seq) == { seq[n] : n \in 1..Len(seq) }
Max(a, b) == IF a >= b THEN a ELSE b
Min(a, b) == IF a <= b THEN a ELSE b

\* rating in year t of an asset that was at rating r0 in year y0 and has
\* not been repaired since: it still holds rating r while no more than
\* ratingsDecay[r0][r] years have passed; 0 when it is below the floor
RatingAt(in, r0, y0, t) ==
    LET held == { r \in in.limit..r0 : t - y0 <= in.ratingsDecay[r0][r] }
    IN  IF held = {} THEN 0 ELSE CHOOSE r \in held : \A q \in held : q <= r

\* rating after repair repairID is applied at rating c: the catalog's
\* improvement for that repair (7 restores the asset to rating 7)
RatedAfter(in, repairID, c) ==
    LET rows == { k \in 1..Len(in.repairs) : in.repairs[k].repairID = repairID }
    IN  IF rows = {} THEN c
        ELSE LET imp == in.repairs[CHOOSE k \in rows : \A q \in rows : k <= q].improvement
             IN  IF imp = 7 THEN Max(c, 7) ELSE Min(TopRating, c + imp)

\* one entry of the schedule applied to the asset st = [r, y, ok] (rating r
\* reached in year y; ok: it has been at or above the floor so far)
ReplayEntry(in, st, e) ==
    LET t == e.repairYear - in.bridge.startYear
        c == RatingAt(in, st.r, st.y, t)
    IN  IF ~st.ok \/ c < in.limit THEN [st EXCEPT !.ok = FALSE]
        ELSE [r |-> RatedAfter(in, e.repairID, c), y |-> t, ok |-> TRUE]

\* the entries lo..hi of sched applied in order
RECURSIVE Replay(_, _, _, _, _)
Replay(in, sched, st, lo, hi) ==
    IF lo > hi THEN st
    ELSE IF lo = hi THEN ReplayEntry(in, st, sched[lo])
    ELSE Replay(in, sched, Replay(in, sched, st, lo, (lo + hi) \div 2),
                ((lo + hi) \div 2) + 1, hi)

\* the asset is at or above the floor in every year up to Horizon when
\* sched is applied to an asset at startRating in year 0
Survives(in, sched) ==
    LET st == Replay(in, sched, [r |-> in.bridge.startRating, y |-> 0, ok |-> TRUE],
                     1, Len(sched))
    IN  st.ok /\ RatingAt(in, st.r, st.y, Horizon) >= in.limit

(***************************************************************************)
(* Claims                                                                  *)
(***************************************************************************)
Returned == pc = "done"

\* C1: a run that returns a finite objective returns a schedule whose
\* replay from (year 0, startRating) keeps the rating at or above limit in
\* every year 0..100
\* (stated for the runs whose reconstruction read no unwritten pointer, so
\* that every entry of the schedule comes from a written cell)
C1_ReplayKeepsFloor ==
    (Returned /\ ret < Inf /\ "recon" \notin undefRead) =>
        Survives(inp, optSchedule)


\* the candidates (i, j) of cell (year, rating): yearDecay >= 0
CandidatesOf(in, yr, rt) ==
    { c \in (FirstI(in.variant, rt)..MaxRating) \X (in.limit..MaxRating) :
        c[2] < c[1] /\ yr - in.ratingsDecay[c[1]][rt] >= 0 }

YearDecayOf(in, yr, rt, c) == yr - in.ratingsDecay[c[1]][rt]

\* repairCost(i, j, yearDecay) of the recurrence: the cheapest of the
\* catalog rows that match (i, j), +infinity when none does
CheapestRepair(in, yr, rt, c) ==
    RepairCost(in, NoRepair, c[1], c[2], YearDecayOf(in, yr, rt, c), garbage.coef)

\* M[yearDecay][j] + repairCost(i, j, yearDecay), read from the filled tables
TentativeOf(in, T, yr, rt, c) ==
    TempCost(T, CheapestRepair(in, yr, rt, c), c[2], YearDecayOf(in, yr, rt, c))

\* the tentative value is nonzero and the predecessor cell's
\* predecessor-year differs from yearDecay (a pointer never written compares
\* as it did when the fill read it)
EligibleOf(in, T, yr, rt, c) ==
    /\ TentativeOf(in, T, yr, rt, c) # 0
    /\ SameYearGuard(T.preX[YearDecayOf(in, yr, rt, c)][c[2]],
                     YearDecayOf(in, yr, rt, c), garbage)

RecurrenceMin(in, T, yr, rt) ==
    LET vals == { TentativeOf(in, T, yr, rt, c) :
                    c \in { d \in CandidatesOf(in, yr, rt) :
                              EligibleOf(in, T, yr, rt, d) } }
    IN  IF vals = {} THEN Inf ELSE CHOOSE v \in vals : \A w \in vals : v <= w

\* the recorded triple (preX, preY, preRepair) is one of the eligible
\* candidates and attains M[year][rating]
TripleAttains(in, T, yr, rt) ==
    \E c \in CandidatesOf(in, yr, rt) :
       /\ EligibleOf(in, T, yr, rt, c)
       /\ T.preX[yr][rt] = YearDecayOf(in, yr, rt, c)
       /\ T.preY[yr][rt] = c[2]
       /\ T.preRepair[yr][rt] = CheapestRepair(in, yr, rt, c).repairId
       /\ TentativeOf(in, T, yr, rt, c) = T.M[yr][rt]

FillDone == pc = "dump"

\* C2: after the forward fill every non-boundary cell (year, rating) with
\* limit <= rating <= 8 holds the minimum of M[yearDecay][j] + repairCost
\* over its eligible candidates (+infinity when there is none), and its
\* recorded predecessor triple attains that minimum
C2_CellIsRecurrenceMin ==
    FillDone =>
        \A yr \in Years : \A r \in inp.limit..MaxRating :
            ~IsBoundary(inp, yr, r) =>
                /\ M[yr][r] = RecurrenceMin(inp, Tables, yr, r)
                /\ M[yr][r] < Inf => TripleAttains(inp, Tables, yr, r)

\* the fill has run to its end
Filled == year = Horizon + 1

\* the smallest M[100][rating] over rating in [limit, 7]
FinalMin(in, T) ==
    LET vals == { T.M[Horizon][r] : r \in in.limit..(MaxRating - 1) }
    IN  CHOOSE v \in vals : \A w \in vals : v <= w

\* C3: the value returned equals the smallest M[100][rating] over rating in
\* [limit, 7], and the reconstruction starts at a cell (100, bestRating)
\* whose rating is in [limit, 7] and attains that smallest value
C3_ReturnsFinalMin ==
    /\ Returned => ret = FinalMin(inp, Tables)
    /\ pc = "walk" =>
          /\ x = Horizon
          /\ y \in inp.limit..(MaxRating - 1)
          /\ M[x][y] = FinalMin(inp, Tables)

\* C4: no two entries of the returned schedule have the same repair year
C4_NoSameYearTwice ==
    Returned =>
        \A p, q \in 1..Len(optSchedule) :
            p # q => optSchedule[p].repairYear # optSchedule[q].repairYear

\* C5: the schedule appended to optSchedule is in chronological order, and
\* every repairYear is a year of [0, 100] plus the asset's startYear
C5_ChronologicalYears ==
    Returned =>
        /\ \A p, q \in 1..Len(optSchedule) :
              p < q => optSchedule[p].repairYear <= optSchedule[q].repairYear
        /\ \A p \in 1..Len(optSchedule) :
              optSchedule[p].repairYear - inp.bridge.startYear \in Years

\* every M[100][rating], rating in [limit, 7], is +infinity after the fill
NoFinalRating ==
    Filled /\ \A r \in inp.limit..(MaxRating - 1) : M[Horizon][r] = Inf

\* C6: when no final rating in [limit, 7] is reachable the run returns
\* +infinity as a normal result: it neither hangs nor leaves defined
\* behaviour, its reconstruction reads nothing that was never written, and
\* the output schedule gets no entry
C6_UnreachableIsNormal ==
    NoFinalRating =>
        /\ pc \notin {"hang", "undefined"}
        /\ "recon" \notin undefRead
        /\ optSchedule = <<>>
        /\ Returned => ret = Inf

\* the catalog is not empty and all its repairs are of the "no data"
\* category
OnlyNoData(repairs) ==
    /\ repairs # <<>>
    /\ \A k \in 1..Len(repairs) : repairs[k].repairID \in categorySeven

\* C7: with a catalog of "no data" repairs only (valuation always 0) the
\* scheduler returns objective 0 and an empty schedule
C7_NoDataIsFree ==
    (Returned /\ OnlyNoData(inp.repairs)) =>
        ret = 0 /\ optSchedule = <<>>

\* C8: two runs with identical inputs return the identical objective and
\* the identical schedule
C8_RerunAgrees ==
    (Returned /\ first # <<>>) => first = <<ret, optSchedule>>

MergeReturned == mpc = "returned"

\* C9: for four inputs ordered by ascending repairYear the sequence that
\* mergeFourSched returns is ordered by non-decreasing repairYear
C9_MergeAscending ==
    MergeReturned =>
        \A p, q \in 1..Len(result) :
            p < q => result[p].repairYear <= result[q].repairYear

\* a merge of four non-empty inputs with entries of two different years
\* has returned all their entries
C9_Witness ==
    /\ MergeReturned
    /\ \A i \in Indices : Len(vec[i]) > 0
    /\ Len(result) = Len(vec[0]) + Len(vec[1]) + Len(vec[2]) + Len(vec[3])
    /\ \E p, q \in 1..Len(result) : result[p].repairYear < result[q].repairYear

\* C10 as stated: entries of the same repairYear are emitted in input-index
\* order, schedule 1 before schedule 2 before schedule 3 before schedule 4
C10_TiesInIndexOrder ==
    MergeReturned =>
        \A p, q \in 1..Len(result) :
            (p < q /\ result[p].repairYear = result[q].repairYear)
                => result[p].repairID <= result[q].repairID

\* C10, amended: entries of the same repairYear are emitted in reverse
\* input-index order, schedule 4 before schedule 3 before schedule 2 before
\* schedule 1 (the comparison "<= min" lets the last of the equal heads win)
C10_TiesInReverseIndexOrder ==
    MergeReturned =>
        \A p, q \in 1..Len(result) :
            (p < q /\ result[p].repairYear = result[q].repairYear)
                => result[p].repairID >= result[q].repairID

\* a merge has returned entries of the same year from two different inputs
C10_Witness ==
    /\ MergeReturned
    /\ \E p, q \in 1..Len(result) :
          /\ p < q
          /\ result[p].repairYear = result[q].repairYear
          /\ result[p].repairID # result[q].repairID

\* the inputs of mergeFourSched that have an entry
NonEmptyInputs(v) == { i \in Indices : Len(v[i]) > 0 }

\* C11: mergeFourSched applied to four empty schedules returns an empty
\* schedule, and applied to one non-empty schedule and three empty ones (in
\* any argument position) it returns the non-empty schedule, same entries in
\* the same order; in both cases it returns
C11_EmptyInputsContributeNothing ==
    (mpc # "idle" /\ Cardinality(NonEmptyInputs(vec)) <= 1) =>
        /\ mpc \notin {"crashed", "diverged"}
        /\ MergeReturned =>
              result = IF NonEmptyInputs(vec) = {} THEN <<>>
                       ELSE vec[CHOOSE i \in NonEmptyInputs(vec) : TRUE]

\* C12: at every iteration of the loop of mergeFourSched an input with no
\* remaining entry (one that was empty from the start included) is marked
\* in ends[], so that its iterator is not read by the comparison, and no
\* element at or past the end of an input is emitted
C12_ExhaustedInputsExcluded ==
    /\ mpc = "loop" => \A i \in Indices : AtEnd(vec, itStart, i) => ends[i]
    /\ mpc \in {"loop", "returned", "diverged", "crashed"} =>
          \A p \in 1..Len(result) : result[p].repairID # GarbageRepair

\* ratingDecay has returned without an error
Accepted == "ratingDecay" \in Range(calls) /\ error \notin {LowData, HighData}

\* C13: in the table ratingDecay produces from an accepted curve, for every
\* fromRating i and all toRatings limit <= j1 < j2 < i,
\* DecayTable[i][j1] > DecayTable[i][j2] >= 0
C13_DecayStrictlyMonotone ==
    Accepted =>
        \A i \in run.limit..TopRating :
        \A j1, j2 \in run.limit..TopRating :
            (j1 < j2 /\ j2 < i) =>
                /\ ratingsDecay[i][j1] > ratingsDecay[i][j2]
                /\ ratingsDecay[i][j2] >= 0

\* the curve takes the rating r at some time: its equation
\* a*t^2 + b*t + c = r has a real solution
Reaches(cv, r) == Discriminant(cv, r) >= 0
\* the curve passes strictly beyond the rating r: it has two solutions
Crosses(cv, r) == Discriminant(cv, r) > 0

\* ratingDecay is the call optSchedule has made last
Decided == calls # <<>> /\ calls[Len(calls)] = "ratingDecay"
\* ratingDecay has just run on an upward-opening parabola
UpwardDecided == Decided /\ run.coeff[1] > 0
\* ratingDecay has just run on a downward-opening parabola
DownwardDecided == Decided /\ run.coeff[1] < 0

\* C14 as stated: an upward-opening parabola whose vertex rating (its
\* lowest rating) is below limit is rejected with the low-data error, and
\* one whose vertex rating exceeds limit is accepted
C14_RejectsVertexBelowFloor ==
    UpwardDecided =>
        /\ Crosses(run.coeff, run.limit) => error = LowData
        /\ ~Reaches(run.coeff, run.limit) => error = ""

\* C14, amended: an upward-opening parabola is rejected with the low-data
\* error exactly when its vertex rating exceeds limit (the curve never comes
\* down to the floor), and accepted when the vertex rating is at or below
\* limit
C14_RejectsVertexAboveFloor ==
    UpwardDecided =>
        /\ ~Reaches(run.coeff, run.limit) => error = LowData /\ rpc = "failed"
        /\ Reaches(run.coeff, run.limit) => error = "" /\ rpc = "compile"

\* ratingDecay has rejected an upward-opening parabola and accepted another
C14_Witness ==
    /\ UpwardDecided /\ rpc \in {"compile", "failed"}
    /\ \/ ~Reaches(run.coeff, run.limit) /\ error = LowData
       \/ Crosses(run.coeff, run.limit) /\ error = ""

\* C15 as stated: a downward-opening parabola is accepted only when its
\* vertex rating (its highest rating) is below 9, and fails with the
\* high-data error otherwise
C15_AcceptsVertexBelowTop ==
    DownwardDecided =>
        /\ error = "" => ~Reaches(run.coeff, TopRating)
        /\ Reaches(run.coeff, TopRating) => error = HighData

\* C15, amended: a downward-opening parabola is accepted only when its
\* vertex rating is at or above 9 (the curve takes the rating 9), and fails
\* with the high-data error when the vertex rating is below 9
C15_AcceptsVertexAtOrAboveTop ==
    DownwardDecided =>
        /\ Reaches(run.coeff, TopRating) => error = "" /\ rpc = "compile"
        /\ ~Reaches(run.coeff, TopRating) => error = HighData /\ rpc = "failed"

\* ratingDecay has decided a downward-opening parabola
C15_Witness ==
    /\ DownwardDecided /\ rpc \in {"compile", "failed"}
    /\ \/ ~Reaches(run.coeff, TopRating) /\ error = HighData
       \/ Crosses(run.coeff, TopRating) /\ error = ""

\* the calls that do the work of the run after the curve is validated
DPWork == {"findOptEnvSchedule", "findOptCostSchedule", "mergeFourSched",
           "writeToServer"}

\* C16: in one run of optSchedule the validation of the decay curve comes
\* before any DP work, and when ratingDecay raises the model-fitting error
\* neither scheduler is called, mergeFourSched is not called and
\* writeToServer writes no result
C16_ValidationBeforeDP ==
    /\ \A p \in 1..Len(calls) :
          calls[p] \in DPWork => \E q \in 1..(p - 1) : calls[q] = "ratingDecay"
    /\ error \in {LowData, HighData} => Range(calls) \cap DPWork = {}

\* ratingDecay has thrown and the run is over
C16_Witness ==
    /\ error \in {LowData, HighData}
    /\ rpc = "failed"
    /\ calls[Len(calls)] = "ratingDecay"

\* C17: every run of the scheduler terminates: after the fill, which visits
\* each cell once, neither the dump walk of a final rating nor the
\* reconstruction walk comes back to a cell it has left
C17_WalksTerminate == pc # "hang"

\* the fill has just left a cell: the cell before (year, rating) in the
\* order of the two loops
JustFilled == pc \in {"fill", "dump"} /\ ~(year = 0 /\ rating = inp.limit)
LastYear   == IF rating = inp.limit THEN year - 1 ELSE year
LastRating == IF rating = inp.limit THEN MaxRating ELSE rating - 1

\* repairCost and repairId as the loop over j holds them at (i, j): what
\* the loops over k at limit..j have left
RECURSIVE CarriedRepair(_, _, _, _, _)
CarriedRepair(in, i, j, yearDecay, gc) ==
    IF j < in.limit THEN NoRepair
    ELSE RepairCost(in, CarriedRepair(in, i, j - 1, yearDecay, gc), i, j,
                    yearDecay, gc)

\* tempCost of the candidate c = <<i, j>> of cell (yr, rt)
ScanCost(in, T, yr, rt, c) ==
    TempCost(T, CarriedRepair(in, c[1], c[2], YearDecayOf(in, yr, rt, c),
                              garbage.coef),
             c[2], YearDecayOf(in, yr, rt, c))

\* the triple (yearDecay, j, repairId) the candidate c would record
ScanTriple(in, yr, rt, c) ==
    <<YearDecayOf(in, yr, rt, c), c[2],
      CarriedRepair(in, c[1], c[2], YearDecayOf(in, yr, rt, c),
                    garbage.coef).repairId>>

\* the candidates that can be accepted whatever the running minimum is:
\* nonzero tempCost, same-year guard passed (and a finite tempCost where
\* the comparison is strict)
ScanEligible(in, T, yr, rt) ==
    { c \in CandidatesOf(in, yr, rt) :
        /\ ScanCost(in, T, yr, rt, c) # 0
        /\ SameYearGuard(T.preX[YearDecayOf(in, yr, rt, c)][c[2]],
                         YearDecayOf(in, yr, rt, c), garbage)
        /\ in.variant = "cost" => ScanCost(in, T, yr, rt, c) < Inf }

\* the eligible candidates of minimal tempCost
ScanMinimal(in, T, yr, rt) ==
    { c \in ScanEligible(in, T, yr, rt) :
        \A d \in ScanEligible(in, T, yr, rt) :
            ScanCost(in, T, yr, rt, c) <= ScanCost(in, T, yr, rt, d) }

\* c comes before d in the order of the loops: ascending i, then ascending j
Before(c, d) == c[1] < d[1] \/ (c[1] = d[1] /\ c[2] <= d[2])
FirstOf(S) == CHOOSE c \in S : \A d \in S : Before(c, d)
LastOf(S)  == CHOOSE c \in S : \A d \in S : Before(d, c)

\* a candidate of the cell is the cell itself (a zero decay entry): its
\* tempCost was read before the fill wrote the cell
SelfRead(in, yr, rt) ==
    \E c \in CandidatesOf(in, yr, rt) :
       YearDecayOf(in, yr, rt, c) = yr /\ c[2] = rt

\* the cell just filled is a cell the fill computes, it has a candidate
\* that can be accepted, and none of its candidates is the cell itself
TieCase ==
    /\ JustFilled
    /\ ~IsBoundary(inp, LastYear, LastRating)
    /\ ~SelfRead(inp, LastYear, LastRating)
    /\ ScanEligible(inp, Tables, LastYear, LastRating) # {}

Recorded(T, yr, rt) == <<T.preX[yr][rt], T.preY[yr][rt], T.preRepair[yr][rt]>>

JustTaken ==
    /\ JustFilled
    /\ ~IsBoundary(inp, LastYear, LastRating)
    /\ M[LastYear][LastRating] < Inf

\* the recorded predecessor of cell (yr, rt) is that of a candidate (i, j)
\* with i in the set is
ExplainedBy(in, T, yr, rt, is) ==
    \E i \in is :
       /\ T.preX[yr][rt] = yr - in.ratingsDecay[i][rt]
       /\ T.preY[yr][rt] \in in.limit..(i - 1)

\* C19 as stated: in both variants the transition of a cell (year, rating)
\* considers only post-repair ratings i with rating < i <= 8: the
\* predecessor recorded for the cell is that of such a candidate
C19_OnlyHigherRatings ==
    JustTaken =>
        ExplainedBy(inp, Tables, LastYear, LastRating,
                    (LastRating + 1)..MaxRating)

\* tempCost of the candidate (i, j) = (rt, j) of cell (yr, rt), whose
\* yearDecay is yr
SameRatingCost(in, T, yr, rt, j) ==
    TempCost(T, CarriedRepair(in, rt, j, yr, garbage.coef), j, yr)

\* the predecessor recorded for a cell is that of a candidate with
\* rating < i <= 8 in findOptEnvSchedule, with rating <= i <= 8 in
\* findOptCostSchedule
C19_HigherOrEqualInCost ==
    JustTaken =>
        IF inp.variant = "env"
        THEN ExplainedBy(inp, Tables, LastYear, LastRating,
                         (LastRating + 1)..MaxRating)
        ELSE ExplainedBy(inp, Tables, LastYear, LastRating,
                         LastRating..MaxRating)

\* findOptCostSchedule evaluates the candidates with i = rating, whose
\* yearDecay is the year of the cell: the value of the cell is at most the
\* tempCost of each of them that is finite, nonzero and passes the
\* same-year guard
C19_SameRatingEvaluated ==
    (JustFilled /\ ~IsBoundary(inp, LastYear, LastRating)
                /\ inp.variant = "cost") =>
        \A j \in inp.limit..(LastRating - 1) :
            LET v == SameRatingCost(inp, Tables, LastYear, LastRating, j)
            IN  (v # 0 /\ v < Inf
                   /\ SameYearGuard(preX[LastYear][j], LastYear, garbage))
                    => M[LastYear][LastRating] <= v

\* C19, amended: findOptEnvSchedule considers only the post-repair ratings
\* i with rating < i <= 8; findOptCostSchedule considers rating <= i <= 8,
\* the candidates with i = rating (yearDecay = year) included, and they are
\* evaluated and recorded like the others
C19_CostStartsAtRating == C19_HigherOrEqualInCost /\ C19_SameRatingEvaluated

\* findOptCostSchedule has recorded for a cell the predecessor of a
\* candidate with i = rating, which no candidate of a higher i explains
C19_Witness ==
    /\ JustTaken
    /\ inp.variant = "cost"
    /\ preX[LastYear][LastRating] = LastYear
    /\ ~ExplainedBy(inp, Tables, LastYear, LastRating,
                    (LastRating + 1)..MaxRating)

\* the catalog has a row of repair id that is applicable at rating j and
\* raises j to i
Applicable(in, id, i, j) ==
    \E k \in 1..Len(in.repairs) :
       in.repairs[k].repairID = id /\ RowMatches(in.repairs[k], i, j)

\* C20: for every candidate (i, j) of the cell just filled the repair cost
\* added to M[yearDecay][j] is the minimum valuation over the catalog rows
\* that raise j to i and whose [LB, UB] contains j (+infinity when there is
\* none), and a recorded predecessor triple with repairID > 0 names a
\* catalog repair that is applicable at rating j and raises j to i
C20_RepairCostIsMatchingMin ==
    (JustFilled /\ ~IsBoundary(inp, LastYear, LastRating)) =>
        /\ \A c \in CandidatesOf(inp, LastYear, LastRating) :
              CarriedRepair(inp, c[1], c[2],
                            YearDecayOf(inp, LastYear, LastRating, c),
                            garbage.coef)
                = CheapestRepair(inp, LastYear, LastRating, c)
        /\ (M[LastYear][LastRating] < Inf
              /\ preRepair[LastYear][LastRating] > 0) =>
              \E c \in CandidatesOf(inp, LastYear, LastRating) :
                 /\ preX[LastYear][LastRating]
                      = YearDecayOf(inp, LastYear, LastRating, c)
                 /\ preY[LastYear][LastRating] = c[2]
                 /\ Applicable(inp, preRepair[LastYear][LastRating], c[1], c[2])


\* the cells of the predecessor chain that starts at c: the chain follows
\* preX for as long as it is not negative (the sentinel is -1)
ChainOf(T, c) ==
    LET tr == Trail(T, "dump", c, WalkBound + 1)
    IN  SelectSeq(tr, LAMBDA d : ~Stops(T, "dump", d))

\* the schedule entry of the chain cell c
EntryOf(in, T, c) ==
    [repairID   |-> T.preRepair[c[1]][c[2]],
     repairYear |-> T.preX[c[1]][c[2]] + in.bridge.startYear]

\* a chain cell with a repair that lies beyond a chain cell without one
BeyondZero(T, ch) ==
    \E k \in 1..Len(ch) : \E m \in 1..(k - 1) :
       /\ T.preRepair[ch[m][1]][ch[m][2]] = 0
       /\ T.preRepair[ch[k][1]][ch[k][2]] > 0

\* C21: a cell of the predecessor chain whose repairID is 0 is left out of
\* the schedule but does not stop the reconstruction: every cell of the
\* chain from (100, bestRating) back to the sentinel that has repairID > 0
\* is an entry of the returned schedule, also behind a cell with repairID 0
C21_ZeroRepairDoesNotStopWalk ==
    (Returned /\ "recon" \notin undefRead) =>
        LET ch == ChainOf(Tables, <<x, y>>)
        IN  \A k \in 1..Len(ch) :
               Tables.preRepair[ch[k][1]][ch[k][2]] > 0 =>
                   EntryOf(inp, Tables, ch[k]) \in Range(optSchedule)


\* the boundary cells: rating <= startRating, and the unrepaired asset has
\* not fallen below the rating by the year
BoundaryCells(in) ==
    { c \in Years \X (in.limit..MaxRating) : IsBoundary(in, c[1], c[2]) }

\* the unrepaired asset still satisfies the rating in the year
UnrepairedSatisfies(in, yr, rt) ==
    rt <= in.bridge.startRating /\ yr <= in.ratingsDecay[in.bridge.startRating][rt]

\* C22: after the fill every boundary cell holds its boundary value:
\* objective 0 where the unrepaired asset still satisfies the rating in the
\* year and +infinity otherwise, predecessor year -1 and repairID 0
C22_BoundaryCellsKeepBoundaryValue ==
    FillDone =>
        \A c \in BoundaryCells(inp) :
           /\ M[c[1]][c[2]] = IF UnrepairedSatisfies(inp, c[1], c[2]) THEN 0 ELSE Inf
           /\ preX[c[1]][c[2]] = -1
           /\ preRepair[c[1]][c[2]] = 0


\* the values of i a loop that skips the negative yearDecay, and only
\* those, would consider
NonNegativeI(dec, yr, rt, from) ==
    { i \in from..MaxRating : yr - dec[i][rt] >= 0 }

\* C23: for the decay tables ratingDecay produces, leaving the loop over i
\* at the first negative yearDecay considers exactly the candidates i that
\* skipping the negative ones would consider, in every cell and in both
\* variants
C23_BreakSkipsOnlyNegative ==
    Accepted =>
        \A v \in Variants : \A yr \in Years : \A rt \in run.limit..MaxRating :
            ConsideredI(ratingsDecay, yr, rt, FirstI(v, rt))
                = NonNegativeI(ratingsDecay, yr, rt, FirstI(v, rt))

\* a table ratingDecay has produced and a cell in which the loop is left
\* at a negative yearDecay after it has considered a candidate
C23_Witness ==
    /\ Accepted
    /\ \E yr \in Years : \E rt \in run.limit..MaxRating :
          LET is == ConsideredI(ratingsDecay, yr, rt, rt + 1)
          IN  /\ is # {}
              /\ \E i \in (rt + 1)..MaxRating :
                    i \notin is /\ yr - ratingsDecay[i][rt] < 0


\* the decay entries the scheduler has read when it has just left a cell of
\* the fill: those of the boundary conditions and those of the cell
ReadSoFar ==
    BoundaryReads(inp) \cup FillReads(inp, LastYear, LastRating)

\* C24: the entries of the decay table with toRating >= fromRating are
\* unused: neither the boundary initialization nor the boundary test nor
\* the transition reads ratingsDecay[i][j] with j >= i
C24_NeverReadsFromDiagonalUp ==
    JustFilled => \A e \in ReadSoFar : e[2] < e[1]

\* C24 as the code has it: the scheduler reads no entry with
\* toRating > fromRating, and every entry it reads is one ratingDecay has
\* written (limit <= j <= i); the diagonal entries, written as 0, are read
C24_NeverReadsAboveDiagonal ==
    JustFilled =>
        \A e \in ReadSoFar :
           /\ inp.limit <= e[2] /\ e[2] <= e[1]
           /\ inp.ratingsDecay[e[1]][e[2]] # Undef

\* a cell of the cost variant has been computed: its loop over i has read
\* the diagonal entry ratingsDecay[rating][rating]
C24_Witness ==
    /\ JustFilled /\ inp.variant = "cost"
    /\ ~IsBoundary(inp, LastYear, LastRating)
    /\ <<LastRating, LastRating>> \in ReadSoFar
    /\ <<inp.bridge.startRating, inp.bridge.startRating>> \in ReadSoFar


\* calEnvImpact has returned
Called == impactArgs # <<>>

\* no row of the catalog has the repairID and bounds that hold the rating
NoRowFor(a) ==
    \A n \in 1..Len(a.repairs) :
       ~(/\ a.repairs[n].repairID = a.repairID
         /\ a.repairs[n].LB <= a.rating /\ a.rating <= a.repairs[n].UB)

\* C25: a call of calEnvImpact with a (repairID, rating) that no catalog row
\* matches raises no error and returns 0, whatever an earlier call returned
C25_UnmatchedReturnsZero ==
    (Called /\ NoRowFor(impactArgs)) => CO2 = 0

\* an unmatched call whose repairID is in the catalog with other bounds,
\* made after a call that returned a positive value
C25_Witness ==
    /\ Called /\ NoRowFor(impactArgs)
    /\ \E n \in 1..Len(impactArgs.repairs) :
          impactArgs.repairs[n].repairID = impactArgs.repairID
    /\ lastCO2 > 0
    /\ CO2 = 0

\* the membership lists as the source writes them, and the sets built
\* from them
CategoryLists ==
    <<categoryOne, categoryTwo, Range(categoryThreeList), categoryFour,
      categoryFive, categorySix, categorySeven, categoryEight, categoryNine,
      categoryTen, categoryEleven>>
CategorySets ==
    <<categoryOne, categoryTwo, categoryThree, categoryFour, categoryFive,
      categorySix, categorySeven, categoryEight, categoryNine, categoryTen,
      categoryEleven>>

\* the formula of category three for the first row that matches the call
CategoryThreeValue(a) ==
    LET row == a.repairs[CHOOSE n \in 1..Len(a.repairs) :
                   /\ a.repairs[n].repairID = a.repairID
                   /\ a.repairs[n].LB <= a.rating /\ a.rating <= a.repairs[n].UB
                   /\ \A m \in 1..(n - 1) :
                         ~(/\ a.repairs[m].repairID = a.repairID
                           /\ a.repairs[m].LB <= a.rating
                           /\ a.rating <= a.repairs[m].UB)]
    IN  Scale * row.repairMean * ImpactBridge.bridgeWidth * row.trafficMean
        * ImpactBridge.bridgeAADT * row.duration
        * Pow(1 + ImpactBridge.trafficGrowthRate, a.year)

\* C26: the eleven category sets are pairwise disjoint, and a repairID in
\* the membership list of a category (45 in the list of category three
\* included) is in the set of that category and is valued by its formula
\* (the formula is stated for category three, the one list whose set is
\* built from fewer elements than the list has)
C26_ListedIDsAreMembers ==
    /\ \A c, d \in 1..11 : c # d => CategorySets[c] \cap CategorySets[d] = {}
    /\ Called =>
          \A c \in 1..11 :
             impactArgs.repairID \in CategoryLists[c] =>
                /\ impactArgs.repairID \in CategorySets[c]
                /\ (c = 3 /\ ~NoRowFor(impactArgs)) =>
                      CO2 = CategoryThreeValue(impactArgs)


\* the cells whose entries the reconstruction has pushed, from (100,
\* bestRating) backwards
ScheduledCells(T, c) ==
    LET tr == Trail(T, "recon", c, WalkBound + 1)
    IN  SelectSeq(tr, LAMBDA d : ~Stops(T, "recon", d))

\* the cost of the repair recorded in cell c: its valuation in the year of
\* the repair at the rating it is applied to
CostOfCell(in, T, c) ==
    TempRepairCost(in, T.preX[c[1]][c[2]], T.preRepair[c[1]][c[2]],
                   T.preY[c[1]][c[2]], garbage.coef)

\* sum of the costs of the cells cs[lo..hi]
RECURSIVE SumCosts(_, _, _, _, _)
SumCosts(in, T, cs, lo, hi) ==
    IF lo > hi THEN 0
    ELSE IF lo = hi THEN CostOfCell(in, T, cs[lo])
    ELSE LET mid == (lo + hi) \div 2
         IN  Add(SumCosts(in, T, cs, lo, mid), SumCosts(in, T, cs, mid + 1, hi))

\* C27: a finite objective the scheduler returns is the sum of the costs of
\* exactly the entries of the returned schedule (each repair valued in its
\* year, discounted in the cost variant)
C27_ObjectiveIsScheduleCost ==
    (Returned /\ ret < Inf /\ "recon" \notin undefRead) =>
        LET cs == ScheduledCells(Tables, <<x, y>>)
        IN  /\ Len(optSchedule) = Len(cs)
            /\ ret = SumCosts(inp, Tables, cs, 1, Len(cs))


\* the entries of the result that come from input i, in the order of the
\* result (the entries of input i carry the repairID i + 1)
FromInput(res, i) == SelectSeq(res, LAMBDA e : e.repairID = i + 1)

\* C28: mergeFourSched loses and duplicates nothing: for any four inputs
\* with years of at most 9999 it returns, the result has every entry of
\* every input exactly once (its length is the sum of the lengths of the
\* inputs) and keeps the entries of each input in their order; while it
\* runs, the result holds a prefix of each input and nothing else
C28_MergeLosesNothing ==
    mpc # "idle" =>
        /\ mpc \notin {"crashed", "diverged"}
        /\ \A i \in Indices :
              /\ Len(FromInput(result, i)) <= Len(vec[i])
              /\ FromInput(result, i) = SubSeq(vec[i], 1, Len(FromInput(result, i)))
        /\ Len(result) = Len(FromInput(result, 0)) + Len(FromInput(result, 1))
                         + Len(FromInput(result, 2)) + Len(FromInput(result, 3))
        /\ MergeReturned =>
              Len(result) = Len(vec[0]) + Len(vec[1]) + Len(vec[2]) + Len(vec[3])


\* the years for which the boundary conditions write M, preX, preY and
\* preRepair
BoundaryYears(in) ==
    LET s == in.bridge.startRating
    IN  UNION { in.ratingsDecay[s][r + 1]..in.ratingsDecay[s][r] :
                  r \in in.limit..(s - 1) }

\* C29: every access of the scheduler to M, preX, preY and preRepair has a
\* year index in 0..100 and a rating index in 0..8, for every decay table
\* with non-negative entries and every startRating in limit..9: the years
\* of the boundary conditions do not exceed 100, and no step of the
\* function leaves the tables
C29_IndicesInRange ==
    pc # "boundary" =>
        /\ BoundaryYears(inp) \subseteq Years
        /\ pc # "undefined"


\* the cell (yd, j) holds its final value when the fill computes the cell
\* (yr, rt): it lies in an earlier year, or in the same year at a lower
\* rating, or it is a boundary cell
FinalWhenRead(in, yr, rt, yd, j) ==
    \/ yd < yr
    \/ (yd = yr /\ j < rt)
    \/ IsBoundary(in, yd, j)

\* C30: every cell M[yearDecay][j], preX[yearDecay][j] the fill reads while
\* it computes a cell (year, rating) already holds its final value; the fill
\* reads neither the cell it is computing nor a cell of the same year and
\* of an equal or higher rating that it has not computed yet
C30_ReadsOnlyFinalCells ==
    (JustFilled /\ ~IsBoundary(inp, LastYear, LastRating)) =>
        \A c \in CandidatesOf(inp, LastYear, LastRating) :
            FinalWhenRead(inp, LastYear, LastRating,
                          YearDecayOf(inp, LastYear, LastRating, c), c[2])

=============================================================================
